---- MODULE Spec2Model ----
(***************************************************************************)
(* Model of the inventory simulation (src/model.py) and of the local       *)
(* search built on it (src/optim.py).                                      *)
(*                                                                         *)
(* Time is counted in ticks; ReviewPeriod ticks make up the 1.0 month of   *)
(* the source.  The cost accumulators hold ReviewPeriod times the value    *)
(* the source holds (an order's cost is multiplied by ReviewPeriod, an     *)
(* interval's holding or shortage cost is rate * level * ticks), so that   *)
(* accumulator / SIM_LENGTH (in ticks) is the source's accumulator /       *)
(* SIM_LENGTH (in months).  Costs in a result record are in tenths, the    *)
(* precision round(., 1) keeps.                                            *)
(***************************************************************************)
EXTENDS Integers, Sequences, FiniteSets, TLC

VARIABLES
    args,           \* positional arguments of the call to run
    phase,          \* "call", "running", "done", "error"
    error,          \* the exception raised, "none" when there is none
    reorder_point,  \* InventorySystem.reorder_point
    order_size,     \* InventorySystem.order_size
    level,          \* InventorySystem.level
    last_change,    \* InventorySystem.last_change
    ordering_cost,  \* InventorySystem.ordering_cost
    shortage_cost,  \* InventorySystem.shortage_cost
    holding_cost,   \* InventorySystem.holding_cost
    history,        \* InventorySystem.history
    now,            \* env.now
    queue,          \* the environment's event queue
    eid,            \* the environment's event counter
    charted,        \* whether step_graph has been called
    results,        \* the dictionary run returns
    fired,          \* the events the environment has processed, in order
    integral,       \* exact integral of the cost rate of level over [0, now]
    \* run_experiments
    reorder_points, \* the argument reorder_points: [kind, items]
    order_sizes,    \* the argument order_sizes: [kind, items]
    num_rep,        \* the argument num_rep
    x_pc,           \* "idle", "call", "loop", "done", "error"
    x_error,        \* the exception run_experiments ends with
    iter_count,     \* the local iter_count
    x_results,      \* the local list results
    x_returned,     \* whether the list has been returned to the caller
    printed,        \* the progress messages printed
    x_runs,         \* the calls to run started so far
    x_p,            \* position of the outer loop in the product (from 1)
    x_k,            \* the inner loop variable k
    \* LocalSearch
    ls_args,        \* the constructor's arguments [start, n, runs]
    ls_pc,          \* "idle", "new", "loop", "done", "error"
    ls_error,       \* the exception the constructor ends with
    start,          \* the local start, the current point
    best,           \* the local best, a mean [num, den]
    path,           \* self.path: [ndim, data]
    cost,           \* self.cost
    ls_i,           \* the loop variable i
    ls_next,        \* the local next, <<>> before the first neighbor
    replications    \* the calls to model.run made so far

simvars == <<args, phase, error, reorder_point, order_size, level, last_change,
             ordering_cost, shortage_cost, holding_cost, history, now, queue,
             eid, charted, results, fired, integral>>
expvars == <<reorder_points, order_sizes, num_rep, x_pc, x_error, iter_count,
             x_results, x_returned, printed, x_runs, x_p, x_k>>
lsvars == <<ls_args, ls_pc, ls_error, start, best, path, cost, ls_i, ls_next,
            replications>>

-----------------------------------------------------------------------------
(* Simulation constants, src/model.py lines 7-15 *)

DEMAND_SIZES == {1, 2, 3, 4}
\* 60. in the source; scaled down with the horizon so that a run reaches a
\* backlog before its second review
START_INVENTORY == 3
COST_ORDER_SETUP == 32
COST_ORDER_PER_ITEM == 3
COST_BACKLOG_PER_ITEM == 5
COST_HOLDING_PER_ITEM == 1
\* 120. months in the source; here in ticks, and shortened
SIM_LENGTH == 8

\* env.timeout(1.0) of review_inventory, in ticks
ReviewPeriod == 4
\* mutant of LeadTimes: a lead time may be a whole period
LeadTimesClosed == {d \in 1..ReviewPeriod : 2 * d >= ReviewPeriod}

\* np.random.uniform(.5, 1.0): half a period or more, less than a period
LeadTimes == {d \in 1..(ReviewPeriod - 1) : 2 * d >= ReviewPeriod}
\* the delays drawn for np.random.exponential(MEAN_IAT), in ticks
InterArrivalTimes == {2, 3}

\* the literal first argument of the calls to run in optim.py
LS_HORIZON == 120
\* the argument lists run is called with: run(i, j) of run_experiments and
\* run(120, x, y) of LocalSearch, and the same with a first argument of 0
RunArgs == {<<-1, 3>>, <<2, 0>>, <<START_INVENTORY, 3>>, <<3, -1>>,
            <<0, 3, 1>>, <<0, -1, 3>>, <<LS_HORIZON, 3, 5>>, <<LS_HORIZON, -1, 5>>}

-----------------------------------------------------------------------------
(* run's parameters *)

\* def run(reorder_point, order_size, display_chart = False): positional binding
BindRun(a) ==
    [reorder_point |-> a[1],
     order_size    |-> a[2],
     display_chart |-> IF Len(a) >= 3 THEN a[3] ELSE 0]

\* mutant of RunCheck: the order size is not checked
RunCheckLengthOnly(a) == IF SIM_LENGTH <= 0 THEN "ValueError" ELSE "none"

\* the input checks of run; "none" when they pass
RunCheck(a) ==
    IF SIM_LENGTH <= 0 THEN "ValueError"
    ELSE IF BindRun(a).order_size < 0 THEN "ValueError"
    ELSE "none"

\* round(num / den, 1) in tenths, ties to even
Round1(num, den) ==
    LET q == (10 * num) \div den
        r == (10 * num) % den
    IN  IF 2 * r < den THEN q
        ELSE IF 2 * r > den THEN q + 1
        ELSE IF q % 2 = 0 THEN q ELSE q + 1

\* the results dictionary of run
Results(rp, os, oc, hc, sc) ==
    [reorder_point |-> rp,
     order_size    |-> os,
     total_cost    |-> Round1(oc + hc + sc, SIM_LENGTH),
     ordering_cost |-> Round1(oc, SIM_LENGTH),
     holding_cost  |-> Round1(hc, SIM_LENGTH),
     shortage_cost |-> Round1(sc, SIM_LENGTH)]

\* what a call run(a) returns when the run ends with the accumulators c =
\* <<ordering_cost, holding_cost, shortage_cost>>
RunOutcome(a, c) ==
    Results(BindRun(a).reorder_point, BindRun(a).order_size, c[1], c[2], c[3])

NoResults == [reorder_point |-> 0, order_size |-> 0, total_cost |-> 0,
              ordering_cost |-> 0, holding_cost |-> 0, shortage_cost |-> 0]

-----------------------------------------------------------------------------
(* The environment: events ordered by (time, priority, id); priority 0 is  *)
(* urgent (process initialisation, the until event), 1 is normal.          *)

Ev(t, p, id, k, v) == [time |-> t, prio |-> p, eid |-> id, kind |-> k, val |-> v]

Before(e, f) ==
    \/ e.time < f.time
    \/ e.time = f.time /\ e.prio < f.prio
    \/ e.time = f.time /\ e.prio = f.prio /\ e.eid < f.eid

NextEvent == CHOOSE e \in queue : \A f \in queue \ {e} : Before(e, f)

\* the cost rate update_cost charges for a level
CostRate(l) ==
    IF l <= 0 THEN (-l) * COST_BACKLOG_PER_ITEM ELSE l * COST_HOLDING_PER_ITEM

\* mutant of UpdateCost: the interval is measured from time 0, not from
\* last_change
UpdateCostFromZero(t) ==
    IF level <= 0
    THEN <<shortage_cost + (-level) * COST_BACKLOG_PER_ITEM * t, holding_cost>>
    ELSE <<shortage_cost, holding_cost + level * COST_HOLDING_PER_ITEM * t>>

\* update_cost at time t: the new <<shortage_cost, holding_cost>>
UpdateCost(t) ==
    IF level <= 0
    THEN <<shortage_cost + (IF level < 0 THEN -level ELSE level)
                               * COST_BACKLOG_PER_ITEM * (t - last_change),
           holding_cost>>
    ELSE <<shortage_cost,
           holding_cost + level * COST_HOLDING_PER_ITEM * (t - last_change)>>

\* mutant of UntilEvent: the stop is scheduled one tick before the horizon
UntilEventEarly(id) == Ev(SIM_LENGTH - 1, 0, id, "until", 0)

\* mutant of UntilEvent: the stop is scheduled one tick after the horizon
UntilEventLate(id) == Ev(SIM_LENGTH + 1, 0, id, "until", 0)

\* the event env.run(SIM_LENGTH) schedules to stop at: urgent, with the id id
UntilEvent(id) == Ev(SIM_LENGTH, 0, id, "until", 0)

\* what every step of the environment does: pop the head, advance the clock
Pop(e) ==
    /\ phase = "running"
    /\ queue # {}
    /\ e = NextEvent
    /\ now' = e.time
    /\ fired' = Append(fired, e)
    /\ integral' = integral + CostRate(level) * (e.time - now)
    /\ UNCHANGED <<expvars, lsvars>>

-----------------------------------------------------------------------------
NoMean == [num |-> 0, den |-> 1]

IdleSim ==
    /\ args = <<>>
    /\ phase = "idle"
    /\ error = "none"
    /\ reorder_point = 0 /\ order_size = 0
    /\ level = 0 /\ last_change = 0
    /\ ordering_cost = 0 /\ shortage_cost = 0 /\ holding_cost = 0
    /\ history = <<>>
    /\ now = 0 /\ queue = {} /\ eid = 0
    /\ charted = FALSE
    /\ results = NoResults
    /\ fired = <<>>
    /\ integral = 0

IdleExp ==
    /\ reorder_points = [kind |-> "list", items |-> <<>>]
    /\ order_sizes = [kind |-> "list", items |-> <<>>]
    /\ num_rep = 0
    /\ x_pc = "idle"
    /\ x_error = "none"
    /\ iter_count = 0
    /\ x_results = <<>>
    /\ x_returned = FALSE
    /\ printed = <<>>
    /\ x_runs = 0
    /\ x_p = 0 /\ x_k = 0

IdleLS ==
    /\ ls_args = [start |-> <<0, 0>>, n |-> 0, runs |-> 0]
    /\ ls_pc = "idle"
    /\ ls_error = "none"
    /\ start = <<0, 0>>
    /\ best = NoMean
    /\ path = [ndim |-> 1, data |-> <<>>]
    /\ cost = <<>>
    /\ ls_i = 0
    /\ ls_next = <<>>
    /\ replications = <<>>

\* a call of run: run(25, 40) of the script, or one of the callers' calls
Init ==
    /\ IdleExp /\ IdleLS
    /\ args \in RunArgs
    /\ phase = "call"
    /\ error = "none"
    /\ reorder_point = 0 /\ order_size = 0
    /\ level = 0 /\ last_change = 0
    /\ ordering_cost = 0 /\ shortage_cost = 0 /\ holding_cost = 0
    /\ history = <<>>
    /\ now = 0 /\ queue = {} /\ eid = 0
    /\ charted = FALSE
    /\ results = NoResults
    /\ fired = <<>>
    /\ integral = 0

\* run, up to env.run: the input checks, simpy.Environment(),
\* InventorySystem.__init__ and the until event of env.run(SIM_LENGTH)
RunCall ==
    /\ phase = "call"
    /\ IF RunCheck(args) # "none"
       THEN /\ phase' = "error"
            /\ error' = RunCheck(args)
            /\ UNCHANGED <<reorder_point, order_size, level, history, queue, eid>>
       ELSE /\ phase' = "running"
            /\ error' = "none"
            /\ reorder_point' = BindRun(args).reorder_point
            /\ order_size' = BindRun(args).order_size
            /\ level' = START_INVENTORY
            /\ history' = <<<<0, START_INVENTORY>>>>
            /\ queue' = {Ev(0, 0, 0, "init_review", 0),
                         Ev(0, 0, 1, "init_demands", 0),
                         UntilEvent(2)}
            /\ eid' = 3
    /\ UNCHANGED <<args, last_change, ordering_cost, shortage_cost, holding_cost,
                   now, charted, results, fired, integral>>
    /\ UNCHANGED <<expvars, lsvars>>

\* mutant of review_inventory: an order is placed only below the reorder
\* point
review_inventory_below ==
    \E e \in queue :
        /\ Pop(e)
        /\ e.kind \in {"init_review", "review_timeout"}
        /\ IF level < reorder_point
           THEN /\ queue' = (queue \ {e}) \cup
                      {Ev(e.time, 0, eid, "init_order",
                          order_size + reorder_point - level),
                       Ev(e.time + ReviewPeriod, 1, eid + 1, "review_timeout", 0)}
                /\ eid' = eid + 2
           ELSE /\ queue' = (queue \ {e}) \cup
                      {Ev(e.time + ReviewPeriod, 1, eid, "review_timeout", 0)}
                /\ eid' = eid + 1
        /\ UNCHANGED <<args, phase, error, reorder_point, order_size, level,
                       last_change, ordering_cost, shortage_cost, holding_cost,
                       history, charted, results>>

\* review_inventory: one iteration of its loop, up to the yield
review_inventory ==
    \E e \in queue :
        /\ Pop(e)
        /\ e.kind \in {"init_review", "review_timeout"}
        /\ IF level <= reorder_point
           THEN /\ queue' = (queue \ {e}) \cup
                      {Ev(e.time, 0, eid, "init_order",
                          order_size + reorder_point - level),
                       Ev(e.time + ReviewPeriod, 1, eid + 1, "review_timeout", 0)}
                /\ eid' = eid + 2
           ELSE /\ queue' = (queue \ {e}) \cup
                      {Ev(e.time + ReviewPeriod, 1, eid, "review_timeout", 0)}
                /\ eid' = eid + 1
        /\ UNCHANGED <<args, phase, error, reorder_point, order_size, level,
                       last_change, ordering_cost, shortage_cost, holding_cost,
                       history, charted, results>>

\* demands: the draws and the yield of the first iteration
demands_start ==
    \E e \in queue, iat \in InterArrivalTimes, size \in DEMAND_SIZES :
        /\ Pop(e)
        /\ e.kind = "init_demands"
        /\ queue' = (queue \ {e}) \cup {Ev(e.time + iat, 1, eid, "demand_timeout", size)}
        /\ eid' = eid + 1
        /\ UNCHANGED <<args, phase, error, reorder_point, order_size, level,
                       last_change, ordering_cost, shortage_cost, holding_cost,
                       history, charted, results>>

\* mutant of demands_receipt: the level is reduced by the size just drawn,
\* not by the size drawn before the wait
demands_receipt_new_size ==
    \E e \in queue, iat \in InterArrivalTimes, size \in DEMAND_SIZES :
        /\ Pop(e)
        /\ e.kind = "demand_timeout"
        /\ shortage_cost' = UpdateCost(e.time)[1]
        /\ holding_cost' = UpdateCost(e.time)[2]
        /\ level' = level - size
        /\ last_change' = e.time
        /\ history' = Append(history, <<e.time, level - size>>)
        /\ queue' = (queue \ {e}) \cup {Ev(e.time + iat, 1, eid, "demand_timeout", size)}
        /\ eid' = eid + 1
        /\ UNCHANGED <<args, phase, error, reorder_point, order_size,
                       ordering_cost, charted, results>>

\* demands: a demand is received, then the draws and the yield of the next
\* iteration
demands_receipt ==
    \E e \in queue, iat \in InterArrivalTimes, size \in DEMAND_SIZES :
        /\ Pop(e)
        /\ e.kind = "demand_timeout"
        /\ shortage_cost' = UpdateCost(e.time)[1]
        /\ holding_cost' = UpdateCost(e.time)[2]
        /\ level' = level - e.val
        /\ last_change' = e.time
        /\ history' = Append(history, <<e.time, level - e.val>>)
        /\ queue' = (queue \ {e}) \cup {Ev(e.time + iat, 1, eid, "demand_timeout", size)}
        /\ eid' = eid + 1
        /\ UNCHANGED <<args, phase, error, reorder_point, order_size,
                       ordering_cost, charted, results>>

\* place_order up to its yield: the ordering cost and the lead time
place_order_start ==
    \E e \in queue, lead_time \in LeadTimes :
        /\ Pop(e)
        /\ e.kind = "init_order"
        /\ ordering_cost' = ordering_cost + ReviewPeriod *
                               (COST_ORDER_SETUP + e.val * COST_ORDER_PER_ITEM)
        /\ queue' = (queue \ {e}) \cup
                       {Ev(e.time + lead_time, 1, eid, "order_timeout", e.val)}
        /\ eid' = eid + 1
        /\ UNCHANGED <<args, phase, error, reorder_point, order_size, level,
                       last_change, shortage_cost, holding_cost, history,
                       charted, results>>

\* mutant of place_order_receipt: last_change is not set
place_order_receipt_no_stamp ==
    \E e \in queue :
        /\ Pop(e)
        /\ e.kind = "order_timeout"
        /\ shortage_cost' = UpdateCost(e.time)[1]
        /\ holding_cost' = UpdateCost(e.time)[2]
        /\ level' = level + e.val
        /\ history' = Append(history, <<e.time, level + e.val>>)
        /\ queue' = (queue \ {e}) \cup {Ev(e.time, 1, eid, "process_end", e.val)}
        /\ eid' = eid + 1
        /\ UNCHANGED <<args, phase, error, reorder_point, order_size,
                       last_change, ordering_cost, charted, results>>

\* place_order after its yield: the order is received and the process ends
place_order_receipt ==
    \E e \in queue :
        /\ Pop(e)
        /\ e.kind = "order_timeout"
        /\ shortage_cost' = UpdateCost(e.time)[1]
        /\ holding_cost' = UpdateCost(e.time)[2]
        /\ level' = level + e.val
        /\ last_change' = e.time
        /\ history' = Append(history, <<e.time, level + e.val>>)
        /\ queue' = (queue \ {e}) \cup {Ev(e.time, 1, eid, "process_end", e.val)}
        /\ eid' = eid + 1
        /\ UNCHANGED <<args, phase, error, reorder_point, order_size,
                       ordering_cost, charted, results>>

\* the event of an ended place_order process: nothing waits for it
process_end ==
    \E e \in queue :
        /\ Pop(e)
        /\ e.kind = "process_end"
        /\ queue' = queue \ {e}
        /\ UNCHANGED <<args, phase, error, reorder_point, order_size, level,
                       last_change, ordering_cost, shortage_cost, holding_cost,
                       history, eid, charted, results>>

\* the until event ends env.run; run computes and returns the results
RunReturn ==
    \E e \in queue :
        /\ Pop(e)
        /\ e.kind = "until"
        /\ queue' = queue \ {e}
        /\ results' = Results(reorder_point, order_size,
                              ordering_cost, holding_cost, shortage_cost)
        /\ charted' = (BindRun(args).display_chart = 1)
        /\ phase' = "done"
        /\ UNCHANGED <<args, error, reorder_point, order_size, level,
                       last_change, ordering_cost, shortage_cost, holding_cost,
                       history, eid>>

Next ==
    \/ RunCall
    \/ review_inventory
    \/ demands_start
    \/ demands_receipt
    \/ place_order_start
    \/ place_order_receipt
    \/ process_end
    \/ RunReturn

-----------------------------------------------------------------------------
(* run_experiments.  A call of run is one step here: its input checks are  *)
(* RunCheck, and the accumulators its simulation ends with are drawn from  *)
(* EndCosts.                                                               *)

\* accumulators <<ordering_cost, holding_cost, shortage_cost>> a run ends with
EndCosts == {<<0, 30, 0>>, <<ReviewPeriod * COST_ORDER_SETUP, 12, 25>>}

\* largest number of replications
MaxRep == 2
List(q) == [kind |-> "list", items |-> q]
Tuple(q) == [kind |-> "tuple", items |-> q]
\* a dictionary, by the sequence of its keys: what len() and iteration see
Dict(q) == [kind |-> "dict", items |-> q]
Scalar(v) == [kind |-> "scalar", items |-> <<v>>]
ReorderPointInputs ==
    {List(<<20, 25>>), List(<<3>>), List(<<>>), Tuple(<<20, 25>>), Scalar(20)}
OrderSizeInputs ==
    {List(<<30, 40>>), List(<<3, -1>>), Dict(<<30>>), Scalar(30)}
NumRepInputs == {-1, 0, 1, MaxRep}

\* len(c): defined for lists, tuples and dictionaries, a TypeError for a number
HasLen(c) == c.kind \in {"list", "tuple", "dict"}

\* mutant of Product: the first factor varies fastest
ProductFirstFastest(a, b) ==
    [n \in 1..(Len(a) * Len(b)) |->
        <<a[((n - 1) % Len(a)) + 1], b[((n - 1) \div Len(a)) + 1]>>]

\* mutant of Product: the candidates are paired by position, as zip does
ProductZip(a, b) ==
    [n \in 1..(IF Len(a) < Len(b) THEN Len(a) ELSE Len(b)) |-> <<a[n], b[n]>>]

\* itertools.product(a, b) as the sequence of its pairs: the last factor
\* varies fastest
Product(a, b) ==
    [n \in 1..(Len(a) * Len(b)) |->
        <<a[((n - 1) \div Len(b)) + 1], b[((n - 1) % Len(b)) + 1]>>]

DesignPoints == Product(reorder_points.items, order_sizes.items)

InitExp ==
    /\ IdleSim /\ IdleLS
    /\ reorder_points \in ReorderPointInputs
    /\ order_sizes \in OrderSizeInputs
    /\ num_rep \in NumRepInputs
    /\ x_pc = "call"
    /\ x_error = "none"
    /\ iter_count = 0
    /\ x_results = <<>>
    /\ x_returned = FALSE
    /\ printed = <<>>
    /\ x_runs = 0
    /\ x_p = 0 /\ x_k = 0

\* run_experiments up to its loops: the check of num_rep and the two len()
ExpCall ==
    /\ x_pc = "call"
    /\ IF num_rep <= 0
       THEN x_pc' = "error" /\ x_error' = "ValueError" /\ UNCHANGED x_p
       ELSE IF ~HasLen(reorder_points) \/ ~HasLen(order_sizes)
       THEN x_pc' = "error" /\ x_error' = "TypeError" /\ UNCHANGED x_p
       ELSE x_pc' = "loop" /\ x_error' = "none" /\ x_p' = 1
    /\ UNCHANGED <<reorder_points, order_sizes, num_rep, iter_count, x_results,
                   x_returned, printed, x_runs, x_k>>
    /\ UNCHANGED <<simvars, lsvars>>

\* one iteration of the inner loop: the count, the message, run(i, j)
ExpIter ==
    /\ x_pc = "loop"
    /\ x_p <= Len(DesignPoints)
    /\ LET i == DesignPoints[x_p][1]
           j == DesignPoints[x_p][2]
       IN  /\ iter_count' = iter_count + 1
           /\ printed' = IF (iter_count + 1) % 100 = 0
                         THEN Append(printed,
                                     <<iter_count + 1,
                                       Len(reorder_points.items)
                                         * Len(order_sizes.items) * num_rep>>)
                         ELSE printed
           /\ x_runs' = x_runs + 1
           /\ IF RunCheck(<<i, j>>) # "none"
              THEN /\ x_pc' = "error"
                   /\ x_error' = RunCheck(<<i, j>>)
                   /\ UNCHANGED <<x_results, x_p, x_k>>
              ELSE /\ \E c \in EndCosts :
                        x_results' = Append(x_results, RunOutcome(<<i, j>>, c))
                   /\ IF x_k + 1 < num_rep
                      THEN x_k' = x_k + 1 /\ UNCHANGED x_p
                      ELSE x_k' = 0 /\ x_p' = x_p + 1
                   /\ UNCHANGED <<x_pc, x_error>>
    /\ UNCHANGED <<reorder_points, order_sizes, num_rep, x_returned>>
    /\ UNCHANGED <<simvars, lsvars>>

\* the loops are over: return results
ExpReturn ==
    /\ x_pc = "loop"
    /\ x_p > Len(DesignPoints)
    /\ x_pc' = "done"
    /\ x_returned' = TRUE
    /\ UNCHANGED <<reorder_points, order_sizes, num_rep, x_error, iter_count,
                   x_results, printed, x_runs, x_p, x_k>>
    /\ UNCHANGED <<simvars, lsvars>>

NextExp ==
    \/ ExpCall
    \/ ExpIter
    \/ ExpReturn

-----------------------------------------------------------------------------
(* LocalSearch (src/optim.py).  As in run_experiments a call of model.run  *)
(* is one step: RunCheck, then accumulators drawn from EndCosts.           *)

\* xbounds and ybounds: extreme values for reorder point and order size
xbounds == <<0, 100>>
ybounds == <<5, 100>>
\* the draws of random.uniform(-20, 20)
Perturbations == {-20, 20}

\* largest n and largest runs
MaxSteps == 3
MaxRuns == 2
StartInputs == {<<10, 10>>, <<90, 95>>, <<-5, 1>>}
StepInputs == {0, 1, MaxSteps}
RunsInputs == {-1, 0, 1, MaxRuns}

Min2(a, b) == IF a < b THEN a ELSE b
Max2(a, b) == IF a > b THEN a ELSE b

RECURSIVE SumSeq(_)
SumSeq(q) == IF q = <<>> THEN 0 ELSE Head(q) + SumSeq(Tail(q))

\* np.mean of a list, as the fraction num / den; den = 0 is nan, the mean of
\* the empty list
Mean(q) == [num |-> SumSeq(q), den |-> Len(q)]
IsNan(m) == m.den = 0
\* mutant of Less: a candidate of equal cost is selected too
LessOrEqual(a, b) == ~IsNan(a) /\ ~IsNan(b) /\ a.num * b.den <= b.num * a.den

\* mutant of Less: the comparison is the wrong way round
Greater(a, b) == ~IsNan(a) /\ ~IsNan(b) /\ a.num * b.den > b.num * a.den

\* a < b on floats: False when either is nan
Less(a, b) == ~IsNan(a) /\ ~IsNan(b) /\ a.num * b.den < b.num * a.den

\* mutant of Neighbor: both coordinates are kept within xbounds
NeighborOneBox(s, dx, dy) ==
    <<Max2(Min2(s[1] + dx, xbounds[2]), xbounds[1]),
      Max2(Min2(s[2] + dy, xbounds[2]), xbounds[1])>>

\* neighbor with the two draws dx and dy
Neighbor(s, dx, dy) ==
    <<Max2(Min2(s[1] + dx, xbounds[2]), xbounds[1]),
      Max2(Min2(s[2] + dy, ybounds[2]), ybounds[1])>>

\* the argument list of the call model.run(120, p[0], p[1])
RunCallOf(p) == <<LS_HORIZON, p[1], p[2]>>

\* np.vstack([path, next]): a point becomes the first of two rows, rows gain
\* one
VStack(p, nxt) ==
    IF p.ndim = 1 THEN [ndim |-> 2, data |-> <<p.data, nxt>>]
    ELSE [ndim |-> 2, data |-> Append(p.data, nxt)]

\* the record kept of one call of model.run for the point p
Replication(p, raised, tc) ==
    [point         |-> p,
     reorder_point |-> BindRun(RunCallOf(p)).reorder_point,
     order_size    |-> BindRun(RunCallOf(p)).order_size,
     display_chart |-> BindRun(RunCallOf(p)).display_chart = 1,
     raised        |-> raised,
     total_cost    |-> tc]

\* [model.run(120, p[0], p[1])['total_cost'] for j in range(runs)] when the
\* runs end with the accumulators cs[1], cs[2], ...
TotalCosts(p, cs) ==
    [j \in 1..Len(cs) |-> RunOutcome(RunCallOf(p), cs[j]).total_cost]

\* whether the list comprehension raises: it does when it makes a call, and
\* run rejects it
Raises(p, runs) == runs > 0 /\ RunCheck(RunCallOf(p)) # "none"

Logged(p, tcs) == [j \in 1..Len(tcs) |-> Replication(p, FALSE, tcs[j])]

InitLS ==
    /\ IdleSim /\ IdleExp
    /\ ls_args \in [start : StartInputs, n : StepInputs, runs : RunsInputs]
    /\ ls_pc = "new"
    /\ ls_error = "none"
    /\ start = ls_args.start
    /\ best = NoMean
    /\ path = [ndim |-> 1, data |-> <<>>]
    /\ cost = <<>>
    /\ ls_i = 0
    /\ ls_next = <<>>
    /\ replications = <<>>

\* __init__ up to the loop: the initial value
LSInit ==
    /\ ls_pc = "new"
    /\ IF Raises(start, ls_args.runs)
       THEN /\ ls_pc' = "error"
            /\ ls_error' = RunCheck(RunCallOf(start))
            /\ replications' = Append(replications, Replication(start, TRUE, 0))
            /\ UNCHANGED <<best, path, cost, ls_i>>
       ELSE \E cs \in [1..ls_args.runs -> EndCosts] :
              LET val == TotalCosts(start, cs)
              IN  /\ best' = Mean(val)
                  /\ path' = [ndim |-> 1, data |-> start]
                  /\ cost' = Append(cost, Mean(val))
                  /\ ls_i' = 1
                  /\ ls_pc' = "loop"
                  /\ replications' = replications \o Logged(start, val)
                  /\ UNCHANGED ls_error
    /\ UNCHANGED <<ls_args, start, ls_next>>
    /\ UNCHANGED <<simvars, expvars>>

\* one iteration of the loop: a neighbor, its value, the selection
LSStep ==
    /\ ls_pc = "loop"
    /\ ls_i < ls_args.n
    /\ \E dx \in Perturbations, dy \in Perturbations :
         LET next == Neighbor(start, dx, dy)
         IN  /\ ls_next' = next
             /\ IF Raises(next, ls_args.runs)
                THEN /\ ls_pc' = "error"
                     /\ ls_error' = RunCheck(RunCallOf(next))
                     /\ replications' =
                           Append(replications, Replication(next, TRUE, 0))
                     /\ UNCHANGED <<best, path, cost, ls_i, start>>
                ELSE \E cs \in [1..ls_args.runs -> EndCosts] :
                       LET val == Mean(TotalCosts(next, cs))
                       IN  /\ replications' =
                                 replications \o Logged(next, TotalCosts(next, cs))
                           /\ IF Less(val, best)
                              THEN /\ best' = val
                                   /\ path' = VStack(path, next)
                                   /\ cost' = Append(cost, val)
                                   /\ start' = next
                              ELSE UNCHANGED <<best, path, cost, start>>
                           /\ ls_i' = ls_i + 1
                           /\ UNCHANGED <<ls_pc, ls_error>>
    /\ UNCHANGED ls_args
    /\ UNCHANGED <<simvars, expvars>>

\* the loop is over: the object is constructed
LSDone ==
    /\ ls_pc = "loop"
    /\ ls_i >= ls_args.n
    /\ ls_pc' = "done"
    /\ UNCHANGED <<ls_args, ls_error, start, best, path, cost, ls_i, ls_next,
                   replications>>
    /\ UNCHANGED <<simvars, expvars>>

NextLS ==
    \/ LSInit
    \/ LSStep
    \/ LSDone

vars == <<simvars, expvars, lsvars>>

Spec == Init /\ [][Next]_vars
SpecExp == InitExp /\ [][NextExp]_vars
SpecLS == InitLS /\ [][NextLS]_vars

-----------------------------------------------------------------------------
(* Claims *)

\* C1 (as claimed): every replication LocalSearch runs for a point (x, y) is
\* a run with reorder_point = x and order_size = y, and each cost recorded
\* is the mean of the total costs of the runs replications of its point.
C1_ReplicationsRunThePoint ==
    /\ \A k \in DOMAIN replications :
          /\ replications[k].reorder_point = replications[k].point[1]
          /\ replications[k].order_size = replications[k].point[2]
    /\ (ls_pc \in {"loop", "done"} /\ ls_args.runs > 0) =>
          /\ cost[1] = Mean([j \in 1..ls_args.runs |-> replications[j].total_cost])
          /\ \A j \in 1..ls_args.runs : replications[j].point = ls_args.start

\* C2 (as claimed): a call of run with order_size < 0, or with horizon <= 0
\* in the form run(horizon, reorder_point, order_size), raises an
\* invalid-input error before any simulation state is created.
C2_InvalidInputRejected ==
    LET invalid == \/ Len(args) = 2 /\ args[2] < 0
                   \/ Len(args) = 3 /\ (args[1] <= 0 \/ args[3] < 0)
    IN  (phase # "call" /\ invalid) =>
            /\ phase = "error"
            /\ error = "ValueError"
            /\ queue = {} /\ history = <<>> /\ fired = <<>>

\* the record the n-th entry of the results of run_experiments is generated
\* by: replications of a pair adjacent, order sizes varying faster than
\* reorder points
C3_PairOf(n) ==
    LET len2 == Len(order_sizes.items)
    IN  <<reorder_points.items[((n - 1) \div (len2 * num_rep)) + 1],
          order_sizes.items[(((n - 1) \div num_rep) % len2) + 1]>>

C3_OneRecordPerTriple ==
    /\ x_pc = "done"
    /\ x_returned
    /\ Len(x_results) =
          Len(reorder_points.items) * Len(order_sizes.items) * num_rep
    /\ \A n \in DOMAIN x_results :
          /\ x_results[n].reorder_point = C3_PairOf(n)[1]
          /\ x_results[n].order_size = C3_PairOf(n)[2]

C3_ListInputs ==
    /\ num_rep > 0
    /\ reorder_points.kind = "list"
    /\ order_sizes.kind = "list"

\* C3 (as claimed): for num_rep > 0 and list inputs run_experiments ends by
\* returning one record per (reorder_point, order_size, replication) triple,
\* in cross-product order, each with the pair that generated it.
C3_Original ==
    (C3_ListInputs /\ x_pc \in {"done", "error"}) => C3_OneRecordPerTriple

\* C3 (amended): the same, for order sizes that are all >= 0; a negative
\* one makes run raise, and the exception ends run_experiments.
C3_Amended ==
    (/\ C3_ListInputs
     /\ \A m \in DOMAIN order_sizes.items : order_sizes.items[m] >= 0
     /\ x_pc \in {"done", "error"}) => C3_OneRecordPerTriple

C3_Witness ==
    /\ C3_ListInputs
    /\ x_pc = "done"
    /\ Len(reorder_points.items) = 2 /\ Len(order_sizes.items) = 2
    /\ num_rep = 2
    /\ Len(x_results) = 8

C4_Case ==
    /\ reorder_points = List(<<20, 25>>)
    /\ order_sizes = List(<<30, 40>>)
    /\ num_rep = 2

\* C4 (as claimed): with reorder_points [20, 25], order_sizes [30, 40] and
\* num_rep 2, run_experiments returns exactly 4 records.
C4_Original ==
    (C4_Case /\ x_pc \in {"done", "error"}) =>
        (x_pc = "done" /\ Len(x_results) = 4)

\* C4 (amended): with these arguments run_experiments returns exactly 8
\* records, two adjacent ones for each of the 4 pairs (20, 30), (20, 40),
\* (25, 30), (25, 40), each with the pair that generated it.
C4_Amended ==
    (C4_Case /\ x_pc \in {"done", "error"}) =>
        /\ x_pc = "done"
        /\ x_returned
        /\ [n \in DOMAIN x_results |->
               <<x_results[n].reorder_point, x_results[n].order_size>>]
             = <<(<<20, 30>>), (<<20, 30>>), (<<20, 40>>), (<<20, 40>>),
                 (<<25, 30>>), (<<25, 30>>), (<<25, 40>>), (<<25, 40>>)>>

C4_Witness ==
    /\ C4_Case
    /\ x_pc = "done"
    /\ x_runs = 8

\* C5 (as claimed): with num_rep <= 0, or with reorder_points or order_sizes
\* not a list, run_experiments fails before any run is started and returns
\* nothing.
C5_BadInputsFailEagerly ==
    (\/ num_rep <= 0
     \/ reorder_points.kind # "list"
     \/ order_sizes.kind # "list") =>
        /\ x_pc \in {"call", "error"}
        /\ x_runs = 0
        /\ ~x_returned

\* C6 (as claimed): LocalSearch with n <= 0 or runs <= 0 is rejected before
\* any replication is run, and produces no path and no cost.
C6_BadCountsRejected ==
    (ls_args.n <= 0 \/ ls_args.runs <= 0) =>
        /\ ls_pc \in {"new", "error"}
        /\ replications = <<>>
        /\ cost = <<>>

\* C7 (as claimed): at the end of a run holding_cost + shortage_cost is the
\* exact integral over [0, horizon] of the cost rate of the level, the
\* interval from the last change of level to the horizon included.
C7_ExactIntegralAtEnd ==
    phase = "done" => holding_cost + shortage_cost = integral

\* C8 (as claimed): the run fires every event due at or before the horizon
\* and none due after it, and the clock never exceeds the horizon.
C8_Original ==
    /\ now <= SIM_LENGTH
    /\ \A k \in DOMAIN fired : fired[k].time <= SIM_LENGTH
    /\ phase = "done" => \A e \in queue : e.time > SIM_LENGTH

\* C8 (amended): the run fires every event due before the horizon and, but
\* for the event that stops it, none due at the horizon or after it; the
\* clock never exceeds the horizon and is the horizon when the run ends.
C8_Amended ==
    /\ now <= SIM_LENGTH
    /\ \A k \in DOMAIN fired :
          fired[k].time < SIM_LENGTH \/ fired[k].kind = "until"
    /\ phase = "done" =>
          /\ now = SIM_LENGTH
          /\ \A e \in queue : e.time >= SIM_LENGTH

\* a run has ended with the review due at the horizon still waiting
C8_Witness ==
    /\ phase = "done"
    /\ \E e \in queue : e.time = SIM_LENGTH /\ e.kind = "review_timeout"
    /\ \E k \in DOMAIN fired : fired[k].kind = "order_timeout"

\* C10: each entry of cost after the first is strictly less than the entry
\* before it.
C10_CostStrictlyDecreasing ==
    \A k \in 2..Len(cost) :
        /\ cost[k].den > 0 /\ cost[k - 1].den > 0
        /\ cost[k].num * cost[k - 1].den < cost[k - 1].num * cost[k].den

\* two candidates have been accepted
C10_Witness ==
    /\ Len(cost) = 3
    /\ ls_i = 3

\* C11: every candidate neighbor returns has its reorder point in [0, 100]
\* and its order size in [5, 100].
C11_CandidateInBox ==
    ls_next # <<>> =>
        /\ 0 <= ls_next[1] /\ ls_next[1] <= 100
        /\ 5 <= ls_next[2] /\ ls_next[2] <= 100

\* a candidate whose two perturbed values, 10 - 20, lay below the box
C11_Witness ==
    /\ ls_args.start = <<10, 10>>
    /\ ls_i = 2
    /\ ls_next = <<0, 5>>

\* C12 (as claimed): after the initial value and after every step path is a
\* sequence of points beginning with start, and cost has as many entries.
C12_PathParallelToCost ==
    ls_pc \in {"loop", "done"} =>
        /\ path.ndim = 2
        /\ Len(path.data) = Len(cost)
        /\ path.data[1] = ls_args.start
        /\ path.data[Len(path.data)] = start

\* the mean of the total costs of the last runs calls of model.run
C19_LastValue(log) ==
    LET r == ls_args.runs
        n == Len(log)
    IN  IF r <= 0 THEN [num |-> 0, den |-> 0]
        ELSE [num |-> SumSeq([j \in 1..r |-> log[n - r + j].total_cost]),
              den |-> r]

\* whether the candidate valued v improves on best: v < best, both numbers
C19_Improves(v) ==
    /\ v.den > 0 /\ best.den > 0
    /\ v.num * best.den < best.num * v.den

\* C19: in a step the candidate is accepted if and only if its averaged cost
\* is strictly less than the best cost so far; rejected, it leaves the
\* current point, the best cost, path and cost unchanged; accepted, it
\* becomes the current point and its cost the best cost; the next candidate
\* is within one perturbation of the current point.
C19_AcceptIffStrictlyLess ==
    [][(ls_pc = "loop" /\ ls_i' = ls_i + 1) =>
          /\ \E dx \in Perturbations, dy \in Perturbations :
                ls_next' = Neighbor(start, dx, dy)
          /\ IF C19_Improves(C19_LastValue(replications'))
             THEN /\ start' = ls_next'
                  /\ best' = C19_LastValue(replications')
                  /\ cost' = Append(cost, best')
                  /\ path' # path
             ELSE UNCHANGED <<start, best, path, cost>>]_vars

\* a candidate of equal cost has been rejected after one was accepted
C19_Witness ==
    /\ ls_i = 3
    /\ Len(cost) = 2
    /\ ls_args.runs > 0
    /\ ls_next # start
    /\ C19_LastValue(replications) = best

\* the event a step has just processed
LastFired(f) == f[Len(f)]
\* a step that processes an event of one of the kinds K
Fires(K) == Len(fired') = Len(fired) + 1 /\ LastFired(fired').kind \in K
Arrivals == {"demand_timeout", "order_timeout"}
Reviews == {"init_review", "review_timeout"}

\* C13: every change of level is made by the arrival of a demand or of an
\* order, in one step that first charges the interval since last_change at
\* the rate of the level before the change and then sets last_change.
C13_CostBeforeLevel ==
    [][phase = "running" =>
          /\ level' # level => Fires(Arrivals)
          /\ Fires(Arrivals) =>
                /\ level' = IF LastFired(fired').kind = "demand_timeout"
                            THEN level - LastFired(fired').val
                            ELSE level + LastFired(fired').val
                /\ IF level <= 0
                   THEN /\ shortage_cost' = shortage_cost
                              + (-level) * COST_BACKLOG_PER_ITEM * (now' - last_change)
                        /\ holding_cost' = holding_cost
                   ELSE /\ holding_cost' = holding_cost
                              + level * COST_HOLDING_PER_ITEM * (now' - last_change)
                        /\ shortage_cost' = shortage_cost
                /\ last_change' = now']_vars

\* an order has arrived during a backlog, after a change of level
C13_Witness ==
    /\ phase = "running"
    /\ fired # <<>>
    /\ LastFired(fired).kind = "order_timeout"
    /\ shortage_cost > 0 /\ holding_cost > 0
    /\ last_change = now

\* the time of the last arrival processed, 0 when there is none
LastArrivalTime ==
    LET S == {k \in DOMAIN fired : fired[k].kind \in Arrivals}
    IN  IF S = {} THEN 0
        ELSE fired[CHOOSE k \in S : \A m \in S : m <= k].time

\* C14: between steps last_change is the time of the most recent change of
\* level, 0 before any; it is at most now and never decreases.
C14_LastChangeIsLastMutation ==
    /\ [](phase \in {"running", "done"} =>
            last_change = LastArrivalTime /\ last_change <= now)
    /\ [][last_change' >= last_change]_vars

\* demands and an order have arrived, and the clock has moved on since
C14_Witness ==
    /\ phase = "running"
    /\ \E k \in DOMAIN fired : fired[k].kind = "order_timeout"
    /\ \E k \in DOMAIN fired : fired[k].kind = "demand_timeout"
    /\ 0 < last_change /\ last_change < now

\* C15: for an accepted run the three accumulators never decrease, every
\* order has units >= 0, and the averages returned are >= 0.
C15_CostsNeverDecrease ==
    /\ [](/\ \A e \in queue :
               e.kind \in {"init_order", "order_timeout"} => e.val >= 0
          /\ phase = "done" =>
               /\ results.ordering_cost >= 0
               /\ results.holding_cost >= 0
               /\ results.shortage_cost >= 0
               /\ results.total_cost >= 0)
    /\ [][/\ ordering_cost' >= ordering_cost
          /\ holding_cost' >= holding_cost
          /\ shortage_cost' >= shortage_cost]_vars

\* a run with a negative reorder point has ended with all three costs
C15_Witness ==
    /\ phase = "done"
    /\ reorder_point < 0
    /\ results.ordering_cost > 0
    /\ results.holding_cost > 0
    /\ results.shortage_cost > 0

\* the placements and arrivals of orders processed so far, in order
OrderEvents ==
    SelectSeq(fired, LAMBDA e : e.kind \in {"init_order", "order_timeout"})

C18_OrderCost(u) == ReviewPeriod * (COST_ORDER_SETUP + COST_ORDER_PER_ITEM * u)

RECURSIVE SumVal(_, _)
\* the sum of the values of the events of kind k in f
SumVal(f, k) ==
    IF f = <<>> THEN 0
    ELSE (IF Head(f).kind = k THEN Head(f).val ELSE 0) + SumVal(Tail(f), k)

\* C20: level is START_INVENTORY less the demands received plus the orders
\* received; only the arrival of a demand or of an order changes it; the
\* last entry of history is (last_change, level), and the times of history
\* do not decrease.
C20_Conservation ==
    /\ [](phase \in {"running", "done"} =>
            /\ level = START_INVENTORY - SumVal(fired, "demand_timeout")
                                       + SumVal(fired, "order_timeout")
            /\ history[Len(history)] = <<last_change, level>>
            /\ Len(history) = 1 + Cardinality({k \in DOMAIN fired :
                                                 fired[k].kind \in Arrivals})
            /\ \A k \in 2..Len(history) : history[k - 1][1] <= history[k][1])
    /\ [][phase = "running" /\ ~Fires(Arrivals) => level' = level]_vars

\* demands and an order have been received, a review in between
C20_Witness ==
    /\ phase = "done"
    /\ Len(history) >= 5
    /\ SumVal(fired, "order_timeout") > 0
    /\ level < 0

====
